---- MODULE Spec2Model ----
(***************************************************************************)
(* Model of the resumable phase pipeline of youtube_analysis:              *)
(*   utils/state_manager.py  (StateManager: the State Store)               *)
(*   workflow/graph.py       (the node graph: the Pipeline Engine)         *)
(*   utils/retry_handler.py  (RetryHandler: the Retry Policy)              *)
(*   agents/info_extractor.py (extract_info: the extraction executor)      *)
(*   main.py                  (run_workflow_async: the --workflow option)  *)
(***************************************************************************)
EXTENDS Integers, Sequences, FiniteSets, TLC

(***************************************************************************)
(* Bounds of the model.                                                    *)
(***************************************************************************)
\* datetime.now() is a clock that only advances; saves stop at this tick
MaxClock == 6
\* longest error log the model builds with add_error
MaxErrors == 1
\* largest max_retries a direct caller of retry_async passes
MaxRetries == 3
\* largest max_retries of an OllamaClient whose generate_stream is called
MaxStreamRetries == 2
\* most chunks one stream of ollama.chat produces
MaxChunks == 2
\* the tick at which the direct callers of StateManager stop writing
MaxStoreClock == 4
\* longest tag list merged by the tag merge on its own
MaxTagLen == 3

(***************************************************************************)
(* Values.                                                                 *)
(***************************************************************************)
\* The fixed order of the phases (fields of completion_status).
Phases == <<"process_extraction", "process_summarization",
            "info_extraction", "output_compilation">>

PhaseSet == {Phases[i] : i \in 1..Len(Phases)}

Statuses == {"pending", "complete", "failed"}

\* Python's None where a State is expected (Optional[State])
None == [kind |-> "None"]

\* Python's None where a string is expected (final_output_path, a result)
NoneStr == "None"

\* contents of a state file that is absent / that json.load or
\* State.model_validate rejects
NoFile == [kind |-> "NoFile"]
Corrupt == [kind |-> "Corrupt"]

\* a state file that exists and open(state_path, 'r') raises on (no read
\* permission, a directory of that name)
Unreadable == [kind |-> "Unreadable"]

\* a state file holding valid JSON that State.model_validate rejects
NotAState == [kind |-> "NotAState"]

\* the contents on which the try block of load_state raises
Unloadable == {Corrupt, Unreadable, NotAState}

\* an exception that leaves a function (its str() is message)
Raised(message) == [kind |-> "Raised", message |-> message]

\* a value that a function returns to its caller
Returned(value) == [kind |-> "Returned", value |-> value]

\* identifiers of the items the model processes
ChannelIds == {"UC1"}
VideoIds == {"vid1"}

\* identifiers that direct callers of StateManager pass; YouTube channel
\* and video ids are drawn from A-Z a-z 0-9 - _
StoreKeys == {<<"a", "c">>, <<"a", "b_c">>, <<"a_b", "c">>}

\* the phases a direct caller of StateManager marks complete
MarkedPhases == {"process_extraction", "output_compilation"}

\* phase names of the Errors the model passes to add_error: the first phase,
\* the phase extract_info names, and retry_async's default, which matches no
\* branch of add_error
ErrorPhases == {"process_extraction", "info_extraction", "unknown"}

\* the node that executes a phase
NodeOf(p) ==
    CASE p = "process_extraction" -> "ExtractProcessesNode"
      [] p = "process_summarization" -> "SummarizeProcessesNode"
      [] p = "info_extraction" -> "ExtractInfoNode"
      [] p = "output_compilation" -> "CompileOutputNode"

(***************************************************************************)
(* State Record (models.schemas.State, as used by the code).               *)
(***************************************************************************)
\* interim_results of a record built by initialize_state
FreshInterim ==
    [processes |-> <<>>, metadata |-> <<>>, software |-> <<>>,
     tags |-> <<>>, errors |-> <<>>]

\* interim_results of a record written under the older schema, which has no
\* "errors" list (the case add_error initializes)
LegacyInterim ==
    [processes |-> <<>>, metadata |-> <<>>, software |-> <<>>, tags |-> <<>>]

\* the defaults of the State schema for the fields initialize_state does not
\* pass: all phases pending, no write yet, no final output
StateDefaults ==
    [completion_status |-> [p \in PhaseSet |-> "pending"],
     timestamp |-> 0,
     final_output_path |-> NoneStr]

\* State(channel_id=..., video_id=..., interim_results={...})
FreshState(channel_id, video_id) ==
    [channel_id |-> channel_id,
     video_id |-> video_id,
     completion_status |-> StateDefaults.completion_status,
     interim_results |-> FreshInterim,
     timestamp |-> StateDefaults.timestamp,
     final_output_path |-> StateDefaults.final_output_path]

\* Error(phase=..., message=..., retry_count=...)
Error(phase, message, retry_count) ==
    [phase |-> phase, message |-> message, retry_count |-> retry_count]

(***************************************************************************)
(* StateManager                                                            *)
(***************************************************************************)
get_state_path(channel_id, video_id) ==
    "state/" \o channel_id \o "_" \o video_id \o "_state.json"

Paths == {get_state_path(c, v) : c \in ChannelIds, v \in VideoIds}

StorePaths == {get_state_path(k[1], k[2]) : k \in StoreKeys}

\* load_state without its try/except
load_state_unguarded(d, channel_id, video_id) ==
    LET state_path == get_state_path(channel_id, video_id) IN
    IF d[state_path] # NoFile
    THEN IF d[state_path] \notin Unloadable
         THEN d[state_path]
         ELSE Raised("Error loading state")
    ELSE None

\* d is the directory of state files: path -> content
load_state(d, channel_id, video_id) ==
    LET state_path == get_state_path(channel_id, video_id) IN
    IF d[state_path] # NoFile
    THEN IF d[state_path] \notin Unloadable
         THEN d[state_path]
         ELSE None
    ELSE None

\* save_state with the timestamp assigned after the write, inside the try
save_state_stamp_after_write(d, state, clock, outcome) ==
    LET state_path == get_state_path(state.channel_id, state.video_id)
        stamped == [state EXCEPT !.timestamp = clock]
    IN [files |-> CASE outcome = "ok" -> [d EXCEPT ![state_path] = stamped]
                    [] outcome = "open_failed" -> d
                    [] outcome = "write_failed" -> [d EXCEPT ![state_path] = Corrupt],
        state |-> IF outcome = "ok" THEN stamped ELSE state]

\* save_state keeping the phases that are complete in the state file
save_state_keep_completed(d, state, clock, outcome) ==
    LET state_path == get_state_path(state.channel_id, state.video_id)
        stamped == [state EXCEPT !.timestamp = clock]
        old == d[state_path]
        merged == IF old \in {NoFile} \cup Unloadable
                  THEN stamped
                  ELSE [stamped EXCEPT !.completion_status =
                          [p \in PhaseSet |->
                              IF old.completion_status[p] = "complete"
                              THEN "complete"
                              ELSE stamped.completion_status[p]]]
    IN [files |-> CASE outcome = "ok" -> [d EXCEPT ![state_path] = merged]
                    [] outcome = "open_failed" -> d
                    [] outcome = "write_failed" -> [d EXCEPT ![state_path] = Corrupt],
        state |-> stamped]

\* outcome of the write: "ok", "open_failed" (open(..., 'w') raises, the file
\* is untouched) or "write_failed" (the file was truncated by open and the
\* write raises).  Returns the files and the record, whose timestamp is
\* refreshed before the try block.
save_state(d, state, clock, outcome) ==
    LET state_path == get_state_path(state.channel_id, state.video_id)
        stamped == [state EXCEPT !.timestamp = clock]
    IN [files |-> CASE outcome = "ok" -> [d EXCEPT ![state_path] = stamped]
                    [] outcome = "open_failed" -> d
                    [] outcome = "write_failed" -> [d EXCEPT ![state_path] = Corrupt],
        state |-> stamped]

WriteOutcomes == {"ok", "open_failed", "write_failed"}

\* the branch of add_error that sets the status of the error's phase
StatusAfterError(completion_status, phase) ==
    IF phase \in PhaseSet
    THEN [completion_status EXCEPT ![phase] = "failed"]
    ELSE completion_status

add_error(d, state, error, clock, outcome) ==
    LET ir == state.interim_results
        ir1 == IF "errors" \notin DOMAIN ir
               THEN [k \in DOMAIN ir \cup {"errors"} |->
                        IF k = "errors" THEN <<>> ELSE ir[k]]
               ELSE ir
        ir2 == [ir1 EXCEPT !["errors"] = Append(ir1["errors"], error)]
        st == [state EXCEPT
                 !.interim_results = ir2,
                 !.completion_status = StatusAfterError(state.completion_status, error.phase)]
    IN save_state(d, st, clock, outcome)

\* initialize_state that always builds a new State
initialize_state_always_new(d, channel_id, video_id) ==
    FreshState(channel_id, video_id)

initialize_state(d, channel_id, video_id) ==
    LET existing_state == load_state(d, channel_id, video_id) IN
    IF existing_state # None
    THEN existing_state
    ELSE FreshState(channel_id, video_id)

(***************************************************************************)
(* workflow/graph.py: the nodes                                            *)
(***************************************************************************)
\* InitializeNode.run with a failed phase taken for a finished one
InitializeNode_next_failed_is_done(state) ==
    IF state.completion_status["process_extraction"] # "pending"
    THEN IF state.completion_status["process_summarization"] # "pending"
         THEN IF state.completion_status["info_extraction"] # "pending"
              THEN "CompileOutputNode"
              ELSE "ExtractInfoNode"
         ELSE "SummarizeProcessesNode"
    ELSE "ExtractProcessesNode"

\* InitializeNode.run: the node chosen from the record that
\* initialize_state returns
InitializeNode_next(state) ==
    IF state.completion_status["process_extraction"] = "complete"
    THEN IF state.completion_status["process_summarization"] = "complete"
         THEN IF state.completion_status["info_extraction"] = "complete"
              THEN "CompileOutputNode"
              ELSE "ExtractInfoNode"
         ELSE "SummarizeProcessesNode"
    ELSE "ExtractProcessesNode"

\* the f-string of CompileOutputNode.run
output_path(state) ==
    "output/" \o state.channel_id \o "_" \o state.video_id \o "_analysis.json"

\* final_output = {} of CompileOutputNode.run
EmptyOutput == "{}"

(***************************************************************************)
(* utils/retry_handler.py                                                  *)
(***************************************************************************)
Tasks == {1, 2}

Last(seq) == seq[Len(seq)]

RECURSIVE Pow(_, _)
Pow(b, n) == IF n = 0 THEN 1 ELSE b * Pow(b, n - 1)

\* what an invocation of an operation can do: return one of its values or
\* raise an Exception whose str() is message
OutcomesOver(values) ==
    {[kind |-> "return", value |-> v] : v \in values}
    \cup {[kind |-> "raise", value |-> m] : m \in {"e1", "e2"}}

\* values of the operation of a direct caller of retry_async
OpValues == {"r1", "r2"}

\* the except clause re-raising the exception of the last attempt
on_exception_reraise(att, max_retries, delay, backoff_factor, phase_name, message) ==
    LET wait_time == delay * Pow(backoff_factor, att)
        error == Error(phase_name, message, att)
    IN IF att < max_retries
       THEN [do |-> "sleep", wait_time |-> wait_time, error |-> error]
       ELSE [do |-> "raise", wait_time |-> wait_time, error |-> error]

\* the except clause with a backoff that grows linearly
on_exception_linear(att, max_retries, delay, backoff_factor, phase_name, message) ==
    LET wait_time == delay * backoff_factor * att
        error == Error(phase_name, message, att)
    IN IF att < max_retries
       THEN [do |-> "sleep", wait_time |-> wait_time, error |-> error]
       ELSE [do |-> "return", wait_time |-> wait_time, error |-> error]

\* the except clause giving up one attempt early
on_exception_early(att, max_retries, delay, backoff_factor, phase_name, message) ==
    LET wait_time == delay * Pow(backoff_factor, att)
        error == Error(phase_name, message, att)
    IN IF att < max_retries - 1
       THEN [do |-> "sleep", wait_time |-> wait_time, error |-> error]
       ELSE [do |-> "return", wait_time |-> wait_time, error |-> error]

\* the except clause of retry_async for the exception of one attempt: the
\* Error it builds and whether it sleeps and loops or returns
on_exception(att, max_retries, delay, backoff_factor, phase_name, message) ==
    LET wait_time == delay * Pow(backoff_factor, att)
        error == Error(phase_name, message, att)
    IN IF att < max_retries
       THEN [do |-> "sleep", wait_time |-> wait_time, error |-> error]
       ELSE [do |-> "return", wait_time |-> wait_time, error |-> error]

\* the (result, error) pairs retry_async returns
ReturnPair(res, error) == [result |-> res, error |-> error]

\* no (result, error) pair: retry_async has not returned, or fell off the
\* end of its for loop
NoPair == [kind |-> "NoPair"]

\* what a call of retry_sync has done when it ends: the invocations of func,
\* the time.sleep arguments and the pair returned
SyncRun(n, slept, pair) == [calls |-> n, waits |-> slept, ret |-> pair]

\* retry_sync making one attempt only
retry_sync_single_attempt(max_retries, delay, backoff_factor, phase_name, outs) ==
    IF outs = <<>>
    THEN SyncRun(0, <<>>, NoPair)
    ELSE IF outs[1].kind = "return"
         THEN SyncRun(1, <<>>, ReturnPair(outs[1].value, None))
         ELSE SyncRun(1, <<>>, ReturnPair(NoneStr, Error(phase_name, outs[1].value, 0)))

\* the for loop of retry_sync from iteration att on, func(*args, **kwargs)
\* ending as outs[att + 1] says; n and slept are the invocations and sleeps
\* made so far. The loop returns (result, None) when func returns; in the
\* except clause it sleeps delay * backoff_factor ** att and goes on when
\* att < max_retries, and returns (None, error) otherwise.
RECURSIVE retry_sync_loop(_, _, _, _, _, _, _, _)
retry_sync_loop(max_retries, delay, backoff_factor, phase_name, outs, att, n, slept) ==
    IF att \notin 0..max_retries \/ att + 1 > Len(outs)
    THEN SyncRun(n, slept, NoPair)
    ELSE LET o == outs[att + 1] IN
         IF o.kind = "return"
         THEN SyncRun(n + 1, slept, ReturnPair(o.value, None))
         ELSE LET wait_time == delay * Pow(backoff_factor, att)
                  error == Error(phase_name, o.value, att)
              IN IF att < max_retries
                 THEN retry_sync_loop(max_retries, delay, backoff_factor,
                                      phase_name, outs, att + 1, n + 1,
                                      Append(slept, wait_time))
                 ELSE SyncRun(n + 1, slept, ReturnPair(NoneStr, error))

\* retry_sync(func, max_retries, delay, backoff_factor, phase_name) where the
\* successive invocations of func end as the sequence outs says
retry_sync(max_retries, delay, backoff_factor, phase_name, outs) ==
    retry_sync_loop(max_retries, delay, backoff_factor, phase_name, outs,
                    0, 0, <<>>)

(***************************************************************************)
(* agents/info_extractor.py                                                *)
(***************************************************************************)
\* no caller / no dict returned yet
NoJob == [kind |-> "none", existing_tags |-> <<>>]
NoDict == [kind |-> "NoDict"]

\* json.loads raises JSONDecodeError on the text
Invalid == [kind |-> "invalid"]

\* The content of a response of the model, by what extract_info reads of it:
\*   fence   whether the text contains the marker of a fenced json block
\*   inner   json.loads of the text between the fences
\*   whole   json.loads of the whole text
\*   lines   the lines of the text, each split at the emphasis marker
ContentOf(r) ==
    CASE r = "json_keywords" ->
           [fence |-> FALSE, inner |-> Invalid,
            whole |-> [kind |-> "object",
                       fields |-> [software |-> <<"Figma">>,
                                   keywords |-> <<"prototyping", "design", "prototyping">>]],
            lines |-> << <<"{...}">> >>]
      [] r = "fenced_tags" ->
           [fence |-> TRUE,
            inner |-> [kind |-> "object",
                       fields |-> [software |-> <<"Figma">>,
                                   tags |-> <<"prototyping">>]],
            whole |-> Invalid,
            lines |-> << <<"fence json">>, <<"{...}">>, <<"fence">> >>]
      [] r = "json_tags" ->
           [fence |-> FALSE, inner |-> Invalid,
            whole |-> [kind |-> "object",
                       fields |-> [software |-> <<"Figma">>,
                                   tags |-> <<"prototyping">>]],
            lines |-> << <<"{...}">> >>]
      [] r = "json_array" ->
           [fence |-> FALSE, inner |-> Invalid,
            whole |-> [kind |-> "array"],
            lines |-> << <<"[]">> >>]
      [] r = "text_marked" ->
           [fence |-> FALSE, inner |-> Invalid, whole |-> Invalid,
            lines |-> << <<"Tools:">>, <<"- ", "Figma", " editor">>, <<"", "ab", "">> >>]
      [] r = "text_plain" ->
           [fence |-> FALSE, inner |-> Invalid, whole |-> Invalid,
            lines |-> << <<"not json at all">> >>]

LLMResponses ==
    {"json_keywords", "fenced_tags", "json_tags", "json_array", "text_marked",
     "text_plain"}

\* lengths of the candidate keywords of the fallback (len(possible_keyword))
StrLen(str) ==
    CASE str = "Figma" -> 5
      [] str = "ab" -> 2
      [] OTHER -> 0

\* dict.get(key, [])
GetList(fields, key) == IF key \in DOMAIN fields THEN fields[key] ELSE <<>>

\* the loop without its `if tag not in all_tags`
RECURSIVE combine_tags_append_all(_, _)
combine_tags_append_all(all_tags, new) ==
    IF new = <<>> THEN all_tags
    ELSE combine_tags_append_all(Append(all_tags, Head(new)), Tail(new))

\* the loop `for tag in ...: if tag not in all_tags: all_tags.append(tag)`
RECURSIVE combine_tags(_, _)
combine_tags(all_tags, new) ==
    IF new = <<>> THEN all_tags
    ELSE combine_tags(IF \E i \in 1..Len(all_tags) : all_tags[i] = Head(new)
                      THEN all_tags
                      ELSE Append(all_tags, Head(new)),
                      Tail(new))

\* the keywords the fallback collects from the lines that hold the marker
RECURSIVE fallback_keywords(_)
fallback_keywords(lines) ==
    IF lines = <<>> THEN <<>>
    ELSE LET line == Head(lines)
             rest == fallback_keywords(Tail(lines))
         IN IF Len(line) >= 2 /\ StrLen(line[2]) > 2
            THEN <<line[2]>> \o rest
            ELSE rest

Range(seq) == {seq[i] : i \in 1..Len(seq)}

\* list(set(xs)): the distinct elements, in an order the hash seed decides
ListOfSet(xs) ==
    {q \in [1..Cardinality(Range(xs)) -> Range(xs)] : Range(q) = Range(xs)}

\* extract_info returning no tags when the retries are exhausted
extract_info_error_drops_tags(pair, existing_tags) ==
    IF pair.error # None
    THEN {[software |-> <<>>, tags |-> <<>>, error |-> pair.error.message]}
    ELSE LET content == ContentOf(pair.result)
             extracted_data == IF content.fence THEN content.inner ELSE content.whole
         IN CASE extracted_data = Invalid ->
                   {[software |-> <<>>, tags |-> q, error |-> "JSON parsing error"] :
                      q \in ListOfSet(existing_tags \o fallback_keywords(content.lines))}
              [] extracted_data.kind = "object" ->
                   {[software |-> GetList(extracted_data.fields, "software"),
                     tags |-> combine_tags(existing_tags,
                                           GetList(extracted_data.fields, "keywords"))]}
              [] OTHER ->
                   {[software |-> <<>>, tags |-> existing_tags,
                     error |-> "list object has no attribute get"]}

\* The dicts extract_info can return for the (result, error) pair of
\* retry_async, given the tags of the metadata.
extract_info(pair, existing_tags) ==
    IF pair.error # None
    THEN {[software |-> <<>>, tags |-> existing_tags, error |-> pair.error.message]}
    ELSE LET content == ContentOf(pair.result)
             extracted_data == IF content.fence THEN content.inner ELSE content.whole
         IN CASE extracted_data = Invalid ->
                   {[software |-> <<>>, tags |-> q, error |-> "JSON parsing error"] :
                      q \in ListOfSet(existing_tags \o fallback_keywords(content.lines))}
              [] extracted_data.kind = "object" ->
                   {[software |-> GetList(extracted_data.fields, "software"),
                     tags |-> combine_tags(existing_tags,
                                           GetList(extracted_data.fields, "keywords"))]}
              [] OTHER ->
                   {[software |-> <<>>, tags |-> existing_tags,
                     error |-> "list object has no attribute get"]}

(***************************************************************************)
(* State of the pipeline.                                                  *)
(***************************************************************************)
VARIABLES
    disk,       \* the state directory: path -> NoFile | unloadable | record
    now,        \* the value datetime.now() returns next
    node,       \* the node the graph run is at ("Idle": no run)
    nodeKey,    \* <<channel_id, video_id>> of the InitializeNode of the run
    mem,        \* ctx.state.state of the run
    result,     \* the value the run ended with
    executed,   \* history: the phase nodes run so far in this run
    start,      \* history: the records at the start of the run
    \* tasks of one asyncio event loop, each in a call of retry_async
    params,     \* task -> arguments of its retry_async call
    rpc,        \* task -> position in retry_async
    attempt,    \* task -> the loop variable of retry_async
    ret,        \* task -> what retry_async returned
    loop,       \* the task that holds the thread of the event loop (0: none)
    calls,      \* history: task -> number of invocations of the operation
    waits,      \* history: task -> the time.sleep durations, in order
    outcomes,   \* history: task -> outcome of each invocation, in order
    job,        \* task -> the caller of retry_async and its inputs
    xres,       \* task -> the dict extract_info returned
    call,       \* history: the last call of a caller of StateManager
    \* processes that run the graph on the same item at the same time
    ws,         \* writer -> its position in the graph and its record
    lastSave,   \* history: the writer and outcome of the last save_state call,
                \* and the record each writer wrote last
    \* a consumer iterating a generator of OllamaClient.generate_stream
    gen         \* the generator: its position, loop variable and history

pipeVars == <<disk, now, node, nodeKey, mem, result, executed, start>>
retryVars == <<params, rpc, attempt, ret, loop, calls, waits, outcomes>>
jobVars == <<job, xres>>
writerVars == <<ws, lastSave>>
vars == <<pipeVars, retryVars, jobVars, call, writerVars, gen>>

\* no call of StateManager has been made by a direct caller
NoCall == [op |-> "none"]

\* no generator of generate_stream exists
NoStream == [pc |-> "none"]

Writers == {1, 2}

\* no save_state call has been made by a writer
NoSave == [writer |-> 0, outcome |-> "none", written |-> <<None, None>>]

\* no concurrent process exists
NoWriters ==
    /\ ws = [w \in Writers |-> [node |-> "none", mem |-> None]]
    /\ lastSave = NoSave

\* no task exists (the pipeline specification)
RetryIdle ==
    /\ params = [t \in Tasks |-> [max_retries |-> 0, delay |-> 1,
                                  backoff_factor |-> 1, phase_name |-> "unknown"]]
    /\ rpc = [t \in Tasks |-> "none"]
    /\ attempt = [t \in Tasks |-> 0]
    /\ ret = [t \in Tasks |-> NoPair]
    /\ loop = 0
    /\ calls = [t \in Tasks |-> 0]
    /\ waits = [t \in Tasks |-> <<>>]
    /\ outcomes = [t \in Tasks |-> <<>>]
    /\ job = [t \in Tasks |-> NoJob]
    /\ xres = [t \in Tasks |-> NoDict]
    /\ call = NoCall
    /\ NoWriters
    /\ gen = NoStream

\* records a state file can hold before the first run of the model
StoredRecords ==
    {[FreshState(c, v) EXCEPT
        !.completion_status = cs,
        !.interim_results = ir,
        !.timestamp = 1,
        !.final_output_path =
            IF cs["output_compilation"] = "complete"
            THEN output_path(FreshState(c, v)) ELSE NoneStr] :
     c \in ChannelIds, v \in VideoIds, cs \in [PhaseSet -> Statuses],
     ir \in {FreshInterim, LegacyInterim}}

Init ==
    /\ disk \in [Paths -> {NoFile, Corrupt} \cup StoredRecords]
    /\ \A c \in ChannelIds, v \in VideoIds :
          LET f == disk[get_state_path(c, v)] IN
          f \in StoredRecords => f.channel_id = c /\ f.video_id = v
    /\ now = 2
    /\ node = "Idle"
    /\ nodeKey = <<>>
    /\ mem = None
    /\ result = NoneStr
    /\ executed = <<>>
    /\ start = None
    /\ RetryIdle

\* A caller starts a run of the graph at InitializeNode(channel_id, video_id)
\* with a YTAnalysisState whose state it built with initialize_state (as
\* run_workflow_async does) or as a new State.
StartRun(channel_id, video_id, loaded) ==
    /\ node = "Idle"
    /\ node' = "InitializeNode"
    /\ nodeKey' = <<channel_id, video_id>>
    /\ mem' = IF loaded
              THEN initialize_state(disk, channel_id, video_id)
              ELSE FreshState(channel_id, video_id)
    /\ result' = NoneStr
    /\ executed' = <<>>
    /\ start' = [loaded |-> initialize_state(disk, channel_id, video_id),
                 mem |-> mem',
                 disk |-> disk]
    /\ UNCHANGED <<disk, now, retryVars, jobVars, call, writerVars, gen>>

InitializeNode_run ==
    /\ node = "InitializeNode"
    /\ LET state == initialize_state(disk, nodeKey[1], nodeKey[2]) IN
       node' = InitializeNode_next(state)
    /\ UNCHANGED <<disk, now, nodeKey, mem, result, executed, start, retryVars, jobVars, call, writerVars, gen>>

ExtractProcessesNode_run(outcome) ==
    /\ node = "ExtractProcessesNode"
    /\ now < MaxClock
    /\ LET st == [mem EXCEPT !.completion_status["process_extraction"] = "complete"]
           sv == save_state(disk, st, now, outcome)
       IN /\ disk' = sv.files
          /\ mem' = sv.state
    /\ now' = now + 1
    /\ node' = "SummarizeProcessesNode"
    /\ executed' = Append(executed, "ExtractProcessesNode")
    /\ UNCHANGED <<nodeKey, result, start, retryVars, jobVars, call, writerVars, gen>>

\* SummarizeProcessesNode.run calling save_state before it sets the status
SummarizeProcessesNode_run_save_first(outcome) ==
    /\ node = "SummarizeProcessesNode"
    /\ now < MaxClock
    /\ LET sv == save_state(disk, mem, now, outcome)
       IN /\ disk' = sv.files
          /\ mem' = [sv.state EXCEPT
                       !.completion_status["process_summarization"] = "complete"]
    /\ now' = now + 1
    /\ node' = "ExtractInfoNode"
    /\ executed' = Append(executed, "SummarizeProcessesNode")
    /\ UNCHANGED <<nodeKey, result, start, retryVars, jobVars, call, writerVars, gen>>

SummarizeProcessesNode_run(outcome) ==
    /\ node = "SummarizeProcessesNode"
    /\ now < MaxClock
    /\ LET st == [mem EXCEPT !.completion_status["process_summarization"] = "complete"]
           sv == save_state(disk, st, now, outcome)
       IN /\ disk' = sv.files
          /\ mem' = sv.state
    /\ now' = now + 1
    /\ node' = "ExtractInfoNode"
    /\ executed' = Append(executed, "SummarizeProcessesNode")
    /\ UNCHANGED <<nodeKey, result, start, retryVars, jobVars, call, writerVars, gen>>

ExtractInfoNode_run(outcome) ==
    /\ node = "ExtractInfoNode"
    /\ now < MaxClock
    /\ LET st == [mem EXCEPT !.completion_status["info_extraction"] = "complete"]
           sv == save_state(disk, st, now, outcome)
       IN /\ disk' = sv.files
          /\ mem' = sv.state
    /\ now' = now + 1
    /\ node' = "CompileOutputNode"
    /\ executed' = Append(executed, "ExtractInfoNode")
    /\ UNCHANGED <<nodeKey, result, start, retryVars, jobVars, call, writerVars, gen>>

\* CompileOutputNode.run setting final_output_path after save_state
CompileOutputNode_run_path_after_save(outcome) ==
    /\ node = "CompileOutputNode"
    /\ now < MaxClock
    /\ LET st == [mem EXCEPT !.completion_status["output_compilation"] = "complete"]
           sv == save_state(disk, st, now, outcome)
       IN /\ disk' = sv.files
          /\ mem' = [sv.state EXCEPT !.final_output_path = output_path(mem)]
    /\ now' = now + 1
    /\ node' = "End"
    /\ result' = EmptyOutput
    /\ executed' = Append(executed, "CompileOutputNode")
    /\ UNCHANGED <<nodeKey, start, retryVars, jobVars, call, writerVars, gen>>

CompileOutputNode_run(outcome) ==
    /\ node = "CompileOutputNode"
    /\ now < MaxClock
    /\ LET st == [mem EXCEPT
                    !.completion_status["output_compilation"] = "complete",
                    !.final_output_path = output_path(mem)]
           sv == save_state(disk, st, now, outcome)
       IN /\ disk' = sv.files
          /\ mem' = sv.state
    /\ now' = now + 1
    /\ node' = "End"
    /\ result' = EmptyOutput
    /\ executed' = Append(executed, "CompileOutputNode")
    /\ UNCHANGED <<nodeKey, start, retryVars, jobVars, call, writerVars, gen>>

\* the run has returned End(final_output); the caller drops the context
Finish ==
    /\ node = "End"
    /\ node' = "Idle"
    /\ mem' = None
    /\ nodeKey' = <<>>
    /\ UNCHANGED <<disk, now, result, executed, start, retryVars, jobVars, call, writerVars, gen>>

\* StateManager.add_error called on the record of the run
AddError(phase, outcome) ==
    /\ node \notin {"Idle", "InitializeNode"}
    /\ now < MaxClock
    /\ Len(IF "errors" \in DOMAIN mem.interim_results
           THEN mem.interim_results["errors"] ELSE <<>>) < MaxErrors
    /\ LET sv == add_error(disk, mem, Error(phase, "boom", 2), now, outcome)
       IN /\ disk' = sv.files
          /\ mem' = sv.state
    /\ now' = now + 1
    /\ UNCHANGED <<node, nodeKey, result, executed, start, retryVars, jobVars, call, writerVars, gen>>

\* the process stops in the middle of a run; the in-memory record is lost
Crash ==
    /\ node \notin {"Idle", "End"}
    /\ node' = "Idle"
    /\ mem' = None
    /\ nodeKey' = <<>>
    /\ UNCHANGED <<disk, now, result, executed, start, retryVars, jobVars, call, writerVars, gen>>

\* where in its save_state call a phase node is when the process stops:
\* open(state_path, 'w') has truncated the file and nothing is written yet,
\* or the record is written and the node has not returned
CrashPoints == {"truncated", "written"}

\* the record a phase node passes to save_state
NodeRecord(n, state) ==
    CASE n = "ExtractProcessesNode" ->
           [state EXCEPT !.completion_status["process_extraction"] = "complete"]
      [] n = "SummarizeProcessesNode" ->
           [state EXCEPT !.completion_status["process_summarization"] = "complete"]
      [] n = "ExtractInfoNode" ->
           [state EXCEPT !.completion_status["info_extraction"] = "complete"]
      [] n = "CompileOutputNode" ->
           [state EXCEPT !.completion_status["output_compilation"] = "complete",
                         !.final_output_path = output_path(state)]

\* the process stops while the phase node of the run is in save_state
CrashInPhase(point) ==
    /\ node \in {NodeOf(p) : p \in PhaseSet}
    /\ now < MaxClock
    /\ LET st == NodeRecord(node, mem)
           state_path == get_state_path(st.channel_id, st.video_id)
       IN disk' = CASE point = "truncated" -> [disk EXCEPT ![state_path] = Corrupt]
                    [] point = "written" -> save_state(disk, st, now, "ok").files
    /\ now' = now + 1
    /\ node' = "Idle"
    /\ mem' = None
    /\ nodeKey' = <<>>
    /\ UNCHANGED <<result, executed, start, retryVars, jobVars, call, writerVars, gen>>

(***************************************************************************)
(* The tasks of the event loop.                                            *)
(***************************************************************************)
RetryParams ==
    [max_retries : 0..MaxRetries, delay : {1, 2}, backoff_factor : {2, 3},
     phase_name : {"info_extraction"}]

\* every task is about to call retry_async with arguments of its own
InitRetry ==
    /\ params \in [Tasks -> RetryParams]
    /\ rpc = [t \in Tasks |-> "ready"]
    /\ attempt = [t \in Tasks |-> 0]
    /\ ret = [t \in Tasks |-> NoPair]
    /\ loop = 0
    /\ calls = [t \in Tasks |-> 0]
    /\ waits = [t \in Tasks |-> <<>>]
    /\ outcomes = [t \in Tasks |-> <<>>]
    /\ job = [t \in Tasks |-> [kind |-> "retry_async", existing_tags |-> <<>>]]
    /\ xres = [t \in Tasks |-> NoDict]
    /\ disk = [p \in Paths |-> NoFile]
    /\ now = 2
    /\ node = "Idle"
    /\ nodeKey = <<>>
    /\ mem = None
    /\ result = NoneStr
    /\ executed = <<>>
    /\ start = None
    /\ call = NoCall
    /\ NoWriters
    /\ gen = NoStream

\* the outcomes of the operation task t passes to retry_async
OutcomesOf(t) ==
    IF job[t].kind = "extract_info"
    THEN OutcomesOver(LLMResponses)
    ELSE OutcomesOver(OpValues)

AllOutcomes == OutcomesOver(LLMResponses \cup OpValues)

\* The event loop runs task t, which enters retry_async: first iteration of
\* the for loop, up to `await func(...)`, where the task is suspended.
Invoke(t) ==
    /\ rpc[t] = "ready"
    /\ loop = 0
    /\ rpc' = [rpc EXCEPT ![t] = "await"]
    /\ calls' = [calls EXCEPT ![t] = @ + 1]
    /\ UNCHANGED <<params, attempt, ret, loop, waits, outcomes, pipeVars, jobVars, call, writerVars, gen>>

\* The awaited operation of task t finishes with outcome o and the event
\* loop resumes the task: return on success; in the except clause either
\* time.sleep(wait_time), which keeps the thread, or return (None, error).
Resume(t, o) ==
    /\ rpc[t] = "await"
    /\ loop = 0
    /\ o \in OutcomesOf(t)
    /\ outcomes' = [outcomes EXCEPT ![t] = Append(@, o)]
    /\ IF o.kind = "return"
       THEN /\ rpc' = [rpc EXCEPT ![t] = "returned"]
            /\ ret' = [ret EXCEPT ![t] = ReturnPair(o.value, None)]
            /\ UNCHANGED <<loop, waits>>
       ELSE LET h == on_exception(attempt[t], params[t].max_retries,
                                  params[t].delay, params[t].backoff_factor,
                                  params[t].phase_name, o.value)
            IN CASE h.do = "sleep" ->
                      /\ rpc' = [rpc EXCEPT ![t] = "sleep"]
                      /\ waits' = [waits EXCEPT ![t] = Append(@, h.wait_time)]
                      /\ loop' = t
                      /\ UNCHANGED ret
                 [] h.do = "return" ->
                      /\ rpc' = [rpc EXCEPT ![t] = "returned"]
                      /\ ret' = [ret EXCEPT ![t] = ReturnPair(NoneStr, h.error)]
                      /\ UNCHANGED <<loop, waits>>
                 [] OTHER ->
                      /\ rpc' = [rpc EXCEPT ![t] = "raised"]
                      /\ UNCHANGED <<ret, loop, waits>>
    /\ UNCHANGED <<params, attempt, calls, pipeVars, jobVars, call, writerVars, gen>>

\* time.sleep of task t returns: next iteration of the for loop, up to
\* `await func(...)`; when range(max_retries + 1) is used up the function
\* falls off its end.
Wake(t) ==
    /\ rpc[t] = "sleep"
    /\ loop = t
    /\ loop' = 0
    /\ IF attempt[t] + 1 < params[t].max_retries + 1
       THEN /\ attempt' = [attempt EXCEPT ![t] = @ + 1]
            /\ rpc' = [rpc EXCEPT ![t] = "await"]
            /\ calls' = [calls EXCEPT ![t] = @ + 1]
            /\ UNCHANGED ret
       ELSE /\ rpc' = [rpc EXCEPT ![t] = "returned"]
            /\ UNCHANGED <<attempt, calls, ret>>
    /\ UNCHANGED <<params, waits, outcomes, pipeVars, jobVars, call, writerVars, gen>>

\* After the event loop has run task t to its return, a synchronous caller
\* calls retry_sync with the arguments of t on an operation whose
\* invocations end as those of t did.
Call_retry_sync(t) ==
    /\ rpc[t] = "returned"
    /\ loop = 0
    /\ call = NoCall
    /\ call' = [op |-> "retry_sync",
                task |-> t,
                out |-> retry_sync(params[t].max_retries, params[t].delay,
                                   params[t].backoff_factor,
                                   params[t].phase_name, outcomes[t])]
    /\ UNCHANGED <<params, rpc, attempt, ret, loop, calls, waits, outcomes,
                   pipeVars, jobVars, writerVars, gen>>

\* a step of task t
TaskStep(t) ==
    \/ Invoke(t)
    \/ \E o \in AllOutcomes : Resume(t, o)
    \/ Wake(t)

NextRetry ==
    \/ \E t \in Tasks : Invoke(t)
    \/ \E t \in Tasks, o \in AllOutcomes : Resume(t, o)
    \/ \E t \in Tasks : Wake(t)
    \/ \E t \in Tasks : Call_retry_sync(t)

SpecRetry == InitRetry /\ [][NextRetry]_vars

(***************************************************************************)
(* extract_info as the caller of retry_async.                              *)
(***************************************************************************)
ExistingTags == {<<>>, <<"design">>, <<"design", "ui", "design">>}

\* Task 1 runs extract_info for the item, which may have a persisted State
\* Record; the retry_async call is the one of info_extractor.py:52-57.
InitExtract ==
    /\ job \in {[t \in Tasks |-> IF t = 1
                                  THEN [kind |-> "extract_info", existing_tags |-> e]
                                  ELSE NoJob] : e \in ExistingTags}
    /\ xres = [t \in Tasks |-> NoDict]
    /\ params = [t \in Tasks |-> [max_retries |-> 2, delay |-> 1,
                                  backoff_factor |-> 2,
                                  phase_name |-> "info_extraction"]]
    /\ rpc = [t \in Tasks |-> IF t = 1 THEN "ready" ELSE "none"]
    /\ attempt = [t \in Tasks |-> 0]
    /\ ret = [t \in Tasks |-> NoPair]
    /\ loop = 0
    /\ calls = [t \in Tasks |-> 0]
    /\ waits = [t \in Tasks |-> <<>>]
    /\ outcomes = [t \in Tasks |-> <<>>]
    /\ disk \in [Paths -> {NoFile} \cup StoredRecords]
    /\ now = 2
    /\ node = "Idle"
    /\ nodeKey = <<>>
    /\ mem = None
    /\ result = NoneStr
    /\ executed = <<>>
    /\ start = None
    /\ call = NoCall
    /\ NoWriters
    /\ gen = NoStream

\* extract_info of task t continues after `await RetryHandler.retry_async`
\* and returns its dict
ExtractInfo_return(t) ==
    /\ job[t].kind = "extract_info"
    /\ rpc[t] = "returned"
    /\ xres[t] = NoDict
    /\ loop = 0
    /\ \E d \in extract_info(ret[t], job[t].existing_tags) :
          xres' = [xres EXCEPT ![t] = d]
    /\ UNCHANGED <<job, pipeVars, retryVars, call, writerVars, gen>>

NextExtract ==
    \/ \E t \in Tasks : Invoke(t)
    \/ \E t \in Tasks, o \in AllOutcomes : Resume(t, o)
    \/ \E t \in Tasks : Wake(t)
    \/ \E t \in Tasks : ExtractInfo_return(t)

SpecExtract == InitExtract /\ [][NextExtract]_vars

\* the persisted State Record of the item extract_info works on
ItemRecord == load_state(disk, "UC1", "vid1")

\* C6: when the retry wrapper has returned an Error for the fallible call of
\* the info_extraction phase, the status of that phase in the State Record
\* is failed (not complete) and the Error is in the errors of the record.
C6_FailureRecorded ==
    \A t \in Tasks :
        (job[t].kind = "extract_info" /\ xres[t] # NoDict /\ ret[t].error # None) =>
            /\ ItemRecord # None
            /\ ItemRecord.completion_status["info_extraction"] = "failed"
            /\ "errors" \in DOMAIN ItemRecord.interim_results
            /\ \E i \in 1..Len(ItemRecord.interim_results["errors"]) :
                  ItemRecord.interim_results["errors"][i] = ret[t].error

(***************************************************************************)
(* Properties of retry_async.                                              *)
(***************************************************************************)
\* the outcomes of task t so far are k failures followed by one success
FailedThenSucceeded(t, k) ==
    /\ Len(outcomes[t]) = k + 1
    /\ \A i \in 1..k : outcomes[t][i].kind = "raise"
    /\ outcomes[t][k + 1].kind = "return"

\* every invocation of the operation of task t so far has raised
AlwaysFailed(t) ==
    /\ outcomes[t] # <<>>
    /\ \A i \in 1..Len(outcomes[t]) : outcomes[t][i].kind = "raise"

\* delay * backoff_factor^0, ..., delay * backoff_factor^(k-1)
BackoffDelays(t, k) ==
    [i \in 1..k |-> params[t].delay * Pow(params[t].backoff_factor, i - 1)]

\* C7: retry_async never raises: whatever the operation does on each
\* attempt, the call ends by returning a (result, error) pair.
C7_NeverRaises ==
    \A t \in Tasks :
        /\ rpc[t] # "raised"
        /\ rpc[t] = "returned" =>
              /\ ret[t] # NoPair
              /\ ret[t].error # None <=> Last(outcomes[t]).kind = "raise"

\* C7 witness: a call has returned after its operation raised on every one
\* of at least two attempts.
C7_Witness ==
    \E t \in Tasks :
        /\ rpc[t] = "returned"
        /\ AlwaysFailed(t)
        /\ Len(outcomes[t]) >= 2
        /\ ret[t].error # None

\* C8: an operation that fails exactly k times and then succeeds, with
\* k < max_retries, is invoked exactly k+1 times; retry_async returns
\* (result of the successful attempt, None); the waits are exactly
\* delay*backoff_factor^0 .. delay*backoff_factor^(k-1), none after the
\* success.
C8_RetryExactness ==
    \A t \in Tasks : \A k \in 0..MaxRetries :
        (rpc[t] = "returned" /\ k < params[t].max_retries
         /\ FailedThenSucceeded(t, k)) =>
            /\ calls[t] = k + 1
            /\ ret[t] = ReturnPair(outcomes[t][k + 1].value, None)
            /\ waits[t] = BackoffDelays(t, k)

\* C8 witness: a call has returned the result of its third attempt, after
\* two failures and two different waits.
C8_Witness ==
    \E t \in Tasks :
        /\ rpc[t] = "returned"
        /\ params[t].max_retries > 2
        /\ FailedThenSucceeded(t, 2)
        /\ Len(waits[t]) = 2
        /\ waits[t][1] # waits[t][2]

\* C9: an operation that fails on every attempt is invoked exactly
\* max_retries+1 times and never more; retry_async then returns (None,
\* Error(phase_name, message of the last exception, max_retries)), and no
\* wait follows the last attempt.
C9_RetryExhaustion ==
    \A t \in Tasks :
        /\ calls[t] <= params[t].max_retries + 1
        /\ (rpc[t] = "returned" /\ AlwaysFailed(t)) =>
              /\ calls[t] = params[t].max_retries + 1
              /\ ret[t] = ReturnPair(NoneStr,
                              Error(params[t].phase_name,
                                    Last(outcomes[t]).value,
                                    params[t].max_retries))
              /\ Len(waits[t]) = params[t].max_retries

\* C9 witness: a call with max_retries = 2 has returned after three failed
\* attempts whose first and last messages differ.
C9_Witness ==
    \E t \in Tasks :
        /\ rpc[t] = "returned"
        /\ params[t].max_retries = 2
        /\ AlwaysFailed(t)
        /\ Len(outcomes[t]) = 3
        /\ outcomes[t][1].value # outcomes[t][3].value

\* C10: while a task is in the wait between two attempts, every other task
\* of the event loop that has work to do can take a step.
C10_WaitSuspendsOnlyCaller ==
    \A t \in Tasks, u \in Tasks :
        (t # u /\ rpc[t] = "sleep" /\ rpc[u] \in {"ready", "await"})
            => ENABLED TaskStep(u)

Next ==
    \/ \E c \in ChannelIds, v \in VideoIds, loaded \in BOOLEAN : StartRun(c, v, loaded)
    \/ InitializeNode_run
    \/ \E o \in WriteOutcomes : ExtractProcessesNode_run(o)
    \/ \E o \in WriteOutcomes : SummarizeProcessesNode_run(o)
    \/ \E o \in WriteOutcomes : ExtractInfoNode_run(o)
    \/ \E o \in WriteOutcomes : CompileOutputNode_run(o)
    \/ Finish
    \/ \E p \in ErrorPhases, o \in WriteOutcomes : AddError(p, o)
    \/ Crash
    \/ \E point \in CrashPoints : CrashInPhase(point)

Spec == Init /\ [][Next]_vars

(***************************************************************************)
(* Properties of the pipeline engine.                                      *)
(***************************************************************************)
PhaseNodes == {NodeOf(p) : p \in PhaseSet}

Mentions(seq, x) == \E i \in 1..Len(seq) : seq[i] = x

AllComplete(state) ==
    \A p \in PhaseSet : state.completion_status[p] = "complete"

\* the first phase, in the fixed order, whose status is not complete
FirstIncomplete(completion_status) ==
    LET open == {i \in 1..Len(Phases) : completion_status[Phases[i]] # "complete"}
    IN Phases[CHOOSE i \in open : \A j \in open : i <= j]

\* a run is in progress, and it was started on the record that
\* InitializeNode loads (the context of run_workflow_async)
InRun ==
    /\ node # "Idle"
    /\ mem # None
    /\ start # None
    /\ start.mem = start.loaded

\* the run was started on the record that InitializeNode loads, and that
\* record has all four phases complete
StartedComplete ==
    /\ start # None
    /\ start.mem = start.loaded
    /\ AllComplete(start.loaded)

\* C1: a run started at InitializeNode on an item whose record has all four
\* phases complete runs no phase node again and leaves the record unchanged,
\* in memory and on disk (timestamp and final_output_path included).
C1_IdempotentResume ==
    (node = "End" /\ StartedComplete) =>
        /\ executed = <<>>
        /\ mem = start.mem
        /\ disk = start.disk

\* C2: when at least one phase of the record InitializeNode loads is not
\* complete, the node it returns is the executor of the first phase, in the
\* fixed order, whose status is not complete.
C2_TransitionRule ==
    [][(node = "InitializeNode" /\ node' # "Idle") =>
         LET state == initialize_state(disk, nodeKey[1], nodeKey[2]) IN
         ~AllComplete(state) =>
             node' = NodeOf(FirstIncomplete(state.completion_status))]_vars

\* C2 witness: InitializeNode has chosen a node other than the first one for
\* a record whose first incomplete phase is failed and is followed by a
\* complete phase.
C2_Witness ==
    /\ node = "SummarizeProcessesNode"
    /\ executed = <<>>
    /\ start.loaded.completion_status["process_extraction"] = "complete"
    /\ start.loaded.completion_status["process_summarization"] = "failed"
    /\ start.loaded.completion_status["info_extraction"] = "complete"

\* C3: a phase whose status is complete at the start of a run (in the record
\* InitializeNode loads and in the record of the context) is not executed
\* during that run.
C3_CompleteNeverExecuted ==
    (node # "Idle" /\ start # None) =>
        \A p \in PhaseSet :
            (/\ start.loaded.completion_status[p] = "complete"
             /\ start.mem.completion_status[p] = "complete")
            => ~Mentions(executed, NodeOf(p))

\* C4: once a phase has status failed in the record of a run (started on the
\* loaded record), no node of a later phase is executed in that run and no
\* later phase becomes complete.
C4_HaltOnFailure ==
    [][InRun =>
        \A i \in 1..Len(Phases), j \in 1..Len(Phases) :
            (i < j /\ mem.completion_status[Phases[i]] = "failed") =>
                /\ ~(executed' = Append(executed, NodeOf(Phases[j])))
                /\ (mem' # None /\ mem.completion_status[Phases[j]] # "complete")
                      => mem'.completion_status[Phases[j]] # "complete"]_vars

\* the persisted record of the key of a run, as load_state returns it
Persisted(d) == load_state(d, mem.channel_id, mem.video_id)

\* C5: within one run (started on the loaded record), a phase status that is
\* complete in the in-memory record or in the persisted record of its key is
\* not pending or failed in the next observation of that record.
C5_MonotonicStatus ==
    [][(InRun /\ node # "InitializeNode" /\ node' # "Idle") =>
        \A p \in PhaseSet :
            /\ mem.completion_status[p] = "complete"
                  => mem'.completion_status[p] = "complete"
            /\ (Persisted(disk) # None /\ Persisted(disk') # None
                 /\ Persisted(disk).completion_status[p] = "complete")
                  => Persisted(disk').completion_status[p] = "complete"]_vars

(***************************************************************************)
(* Direct callers of StateManager, and main.py's run_workflow_async.       *)
(***************************************************************************)
\* the state directory holds no record yet; a file of some key may exist
\* with content the program cannot load
InitStore ==
    /\ disk \in {[p \in StorePaths |-> IF p = q THEN x ELSE NoFile] :
                  q \in StorePaths, x \in {NoFile} \cup Unloadable}
    /\ now = 2
    /\ node = "Idle"
    /\ nodeKey = <<>>
    /\ mem = None
    /\ result = NoneStr
    /\ executed = <<>>
    /\ start = None
    /\ RetryIdle

\* the errors of a record ([] when the record has no "errors" list)
ErrorsOf(state) ==
    IF "errors" \in DOMAIN state.interim_results
    THEN state.interim_results["errors"] ELSE <<>>

\* state = state_manager.initialize_state(channel_id, video_id)
Call_initialize_state(channel_id, video_id) ==
    /\ mem' = initialize_state(disk, channel_id, video_id)
    /\ call' = [op |-> "initialize_state",
                key |-> <<channel_id, video_id>>,
                content |-> disk[get_state_path(channel_id, video_id)],
                before |-> disk,
                out |-> mem']
    /\ UNCHANGED <<disk, now, node, nodeKey, result, executed, start,
                   retryVars, jobVars, writerVars, gen>>

\* state = state_manager.load_state(channel_id, video_id)
Call_load_state(channel_id, video_id) ==
    /\ LET out == load_state(disk, channel_id, video_id) IN
       /\ mem' = IF out = Raised("Error loading state") THEN mem ELSE out
       /\ call' = [op |-> "load_state",
                   key |-> <<channel_id, video_id>>,
                   content |-> disk[get_state_path(channel_id, video_id)],
                   before |-> disk,
                   out |-> out]
    /\ UNCHANGED <<disk, now, node, nodeKey, result, executed, start,
                   retryVars, jobVars, writerVars, gen>>

\* the caller assigns "complete" to a phase of the record it holds, as the
\* nodes of the graph do before they save
MarkComplete(phase) ==
    /\ mem # None
    /\ mem.completion_status[phase] # "complete"
    /\ mem' = [mem EXCEPT !.completion_status[phase] = "complete"]
    /\ call' = [op |-> "assign"]
    /\ UNCHANGED <<disk, now, node, nodeKey, result, executed, start,
                   retryVars, jobVars, writerVars, gen>>

\* state_manager.save_state(state) on the record the caller holds
Call_save_state(outcome) ==
    /\ mem # None
    /\ now < MaxStoreClock
    /\ LET sv == save_state(disk, mem, now, outcome) IN
       /\ disk' = sv.files
       /\ mem' = sv.state
       /\ call' = [op |-> "save_state",
                   outcome |-> outcome,
                   arg |-> mem,
                   before |-> disk,
                   clock |-> now,
                   out |-> sv.state]
    /\ now' = now + 1
    /\ UNCHANGED <<node, nodeKey, result, executed, start, retryVars, jobVars, writerVars, gen>>

\* state = state_manager.add_error(state, error) on the record the caller
\* holds
Call_add_error(phase, outcome) ==
    /\ mem # None
    /\ now < MaxStoreClock
    /\ Len(ErrorsOf(mem)) < MaxErrors
    /\ LET sv == add_error(disk, mem, Error(phase, "boom", 2), now, outcome) IN
       /\ disk' = sv.files
       /\ mem' = sv.state
       /\ call' = [op |-> "add_error",
                   outcome |-> outcome,
                   arg |-> mem,
                   before |-> disk,
                   clock |-> now,
                   out |-> sv.state]
    /\ now' = now + 1
    /\ UNCHANGED <<node, nodeKey, result, executed, start, retryVars, jobVars, writerVars, gen>>

\* main.py's run_workflow_async(video_id, video_info, transcript_data), the
\* body of the --workflow option: the context is built on
\* initialize_state(channel_id, video_id); ExtractInfoNode().run(ctx) sets
\* info_extraction, saves and returns a CompileOutputNode; `result.value`
\* of that node raises AttributeError, which leaves the function.
run_workflow_async(channel_id, video_id, outcome) ==
    /\ now < MaxStoreClock
    /\ LET initial_state == initialize_state(disk, channel_id, video_id)
           st == [initial_state EXCEPT
                    !.completion_status["info_extraction"] = "complete"]
           sv == save_state(disk, st, now, outcome)
       IN /\ disk' = sv.files
          /\ call' = [op |-> "run_workflow_async",
                      key |-> <<channel_id, video_id>>,
                      outcome |-> outcome,
                      initial |-> initial_state,
                      before |-> disk,
                      state |-> sv.state,
                      out |-> Raised("CompileOutputNode object has no attribute value")]
    /\ now' = now + 1
    /\ executed' = <<"ExtractInfoNode">>
    /\ mem' = None
    /\ UNCHANGED <<node, nodeKey, result, start, retryVars, jobVars, writerVars, gen>>

NextStore ==
    \/ \E k \in StoreKeys : Call_initialize_state(k[1], k[2])
    \/ \E k \in StoreKeys : Call_load_state(k[1], k[2])
    \/ \E p \in MarkedPhases : MarkComplete(p)
    \/ \E o \in WriteOutcomes : Call_save_state(o)
    \/ \E p \in ErrorPhases, o \in WriteOutcomes : Call_add_error(p, o)
    \/ \E k \in StoreKeys, o \in WriteOutcomes : run_workflow_async(k[1], k[2], o)

SpecStore == InitStore /\ [][NextStore]_vars

(***************************************************************************)
(* Properties of StateManager.                                             *)
(***************************************************************************)
\* the content of a state file is a record (neither absent nor unloadable)
IsRecord(content) == content \notin ({NoFile} \cup Unloadable)

\* C11: initialize_state(channel_id, video_id) returns the record persisted
\* in the state file of the key, as it is, when there is one; otherwise it
\* returns a new record with that identity, all four phases pending, empty
\* interim results, no errors and no final_output_path; the state directory
\* is the same after the call.
C11_InitializeOrResume ==
    call.op = "initialize_state" =>
        /\ disk = call.before
        /\ IF IsRecord(call.content)
           THEN call.out = call.content
           ELSE /\ call.out.channel_id = call.key[1]
                /\ call.out.video_id = call.key[2]
                /\ \A p \in PhaseSet : call.out.completion_status[p] = "pending"
                /\ \A k \in DOMAIN call.out.interim_results :
                      call.out.interim_results[k] = <<>>
                /\ ErrorsOf(call.out) = <<>>
                /\ call.out.final_output_path = NoneStr

\* C11 witness: initialize_state has returned a persisted record that has a
\* failed phase, a complete phase and an error.
C11_Witness ==
    /\ call.op = "initialize_state"
    /\ IsRecord(call.content)
    /\ call.out = call.content
    /\ ErrorsOf(call.out) # <<>>
    /\ \E p \in PhaseSet : call.out.completion_status[p] = "failed"
    /\ \E p \in PhaseSet : call.out.completion_status[p] = "complete"
    /\ disk = call.before

\* a value is a State Record
IsState(x) == "completion_status" \in DOMAIN x

\* C12: load_state never raises: it returns a State Record or None; for a
\* state file that is missing, unreadable, not valid JSON or not a valid
\* State Record it returns None; the state directory is the same after the
\* call.
C12_LoadNeverRaises ==
    call.op = "load_state" =>
        /\ call.out = None \/ IsState(call.out)
        /\ ~IsRecord(call.content) => call.out = None
        /\ IsRecord(call.content) => call.out = call.content
        /\ disk = call.before

\* C12 witness: load_state has returned None for a file left truncated by a
\* failed write of save_state, and the file is still there.
C12_Witness ==
    /\ call.op = "load_state"
    /\ call.content = Corrupt
    /\ call.out = None
    /\ disk[get_state_path(call.key[1], call.key[2])] = Corrupt
    /\ now > 2

\* C13: save_state returns normally whatever the write does, and the record
\* the caller holds after the call is the record it passed with the
\* timestamp set to the time of the call (a new value on every call) and
\* every other field as it was.
C13_SaveRefreshesTimestamp ==
    call.op = "save_state" =>
        /\ IsState(call.out)
        /\ call.out.timestamp = call.clock
        /\ call.out.timestamp # call.arg.timestamp
        /\ call.out = [call.arg EXCEPT !.timestamp = call.clock]
        /\ mem = call.out

\* C13 witness: a save of a record that had been saved before has failed
\* after truncating the file, and the caller holds the record with its
\* completed phase and the new timestamp.
C13_Witness ==
    /\ call.op = "save_state"
    /\ call.outcome = "write_failed"
    /\ call.arg.timestamp > 0
    /\ mem.timestamp > call.arg.timestamp
    /\ mem.completion_status["process_extraction"] = "complete"
    /\ disk[get_state_path(mem.channel_id, mem.video_id)] = Corrupt

\* C14: each (channel_id, video_id) pair has a state file of its own: a
\* record that load_state or initialize_state returns for a pair is a
\* record of that pair, never the record saved for another item.
C14_OwnStateFile ==
    (call.op \in {"load_state", "initialize_state"} /\ IsState(call.out)) =>
        /\ call.out.channel_id = call.key[1]
        /\ call.out.video_id = call.key[2]

(***************************************************************************)
(* The error log of an item.                                               *)
(***************************************************************************)
IsPrefix(s, t) ==
    /\ Len(s) <= Len(t)
    /\ \A i \in 1..Len(s) : s[i] = t[i]

\* the error log a resume of the item starts from: the errors of the record
\* initialize_state returns for its key
ItemErrors(d, channel_id, video_id) ==
    ErrorsOf(initialize_state(d, channel_id, video_id))

\* C15: the error log of an item is append-only: in every step of a run
\* (started on the loaded record) the errors of the in-memory record, and
\* the errors of the record a resume of the item would start from, keep the
\* entries they had, in order, and only grow at the end.
C15_ErrorsAppendOnly ==
    [][(InRun /\ node # "InitializeNode" /\ node' # "Idle") =>
          /\ IsPrefix(ErrorsOf(mem), ErrorsOf(mem'))
          /\ IsPrefix(ItemErrors(disk, mem.channel_id, mem.video_id),
                      ItemErrors(disk', mem.channel_id, mem.video_id))]_vars

(***************************************************************************)
(* Properties of extract_info.                                             *)
(***************************************************************************)
\* task t runs extract_info and the function has returned its dict
Extracted(t) == job[t].kind = "extract_info" /\ xres[t] # NoDict

\* task t runs extract_info, which has returned after its call got the
\* response r from the model
ExtractedFrom(t, r) ==
    Extracted(t) /\ ret[t].error = None /\ ret[t].result = r

\* C16: extract_info never raises: its retry_async call returns, and what
\* it returns to its caller is a dict with software and tags; when the call
\* of the model has failed on all 3 attempts (max_retries = 2) the dict is
\* software = [], tags = the tags of the metadata as they were, error = the
\* message of the last exception.
C16_TotalFailureTolerant ==
    \A t \in Tasks :
        job[t].kind = "extract_info" =>
            /\ rpc[t] # "raised"
            /\ calls[t] <= 3
            /\ xres[t] # NoDict => {"software", "tags"} \subseteq DOMAIN xres[t]
            /\ (xres[t] # NoDict /\ AlwaysFailed(t)) =>
                  /\ calls[t] = 3
                  /\ xres[t] = [software |-> <<>>,
                                tags |-> job[t].existing_tags,
                                error |-> Last(outcomes[t]).value]

\* C16 witness: extract_info has returned after three failed attempts whose
\* first and last messages differ, for metadata whose tags hold a duplicate.
C16_Witness ==
    \E t \in Tasks :
        /\ Extracted(t)
        /\ AlwaysFailed(t)
        /\ Len(outcomes[t]) = 3
        /\ outcomes[t][1].value # outcomes[t][3].value
        /\ job[t].existing_tags = <<"design", "ui", "design">>
        /\ xres[t].tags = <<"design", "ui", "design">>
        /\ xres[t].error = outcomes[t][3].value

(***************************************************************************)
(* The tag merge of extract_info (info_extractor.py:79-82) on its own.     *)
(***************************************************************************)
TagNames == {"A", "B", "C"}

\* the lists of at most MaxTagLen tags
TagLists == UNION {[1..n -> TagNames] : n \in 0..MaxTagLen}

\* Task 1 holds the tags of the metadata and the keywords of a response.
InitMerge ==
    /\ job \in {[t \in Tasks |-> IF t = 1
                                  THEN [kind |-> "combine_tags",
                                        existing_tags |-> e, keywords |-> n]
                                  ELSE NoJob] : e \in TagLists, n \in TagLists}
    /\ xres = [t \in Tasks |-> NoDict]
    /\ params = [t \in Tasks |-> [max_retries |-> 0, delay |-> 1,
                                  backoff_factor |-> 1, phase_name |-> "unknown"]]
    /\ rpc = [t \in Tasks |-> "none"]
    /\ attempt = [t \in Tasks |-> 0]
    /\ ret = [t \in Tasks |-> NoPair]
    /\ loop = 0
    /\ calls = [t \in Tasks |-> 0]
    /\ waits = [t \in Tasks |-> <<>>]
    /\ outcomes = [t \in Tasks |-> <<>>]
    /\ disk = [p \in Paths |-> NoFile]
    /\ now = 2
    /\ node = "Idle"
    /\ nodeKey = <<>>
    /\ mem = None
    /\ result = NoneStr
    /\ executed = <<>>
    /\ start = None
    /\ call = NoCall
    /\ NoWriters
    /\ gen = NoStream

\* all_tags = existing_tags.copy(), then the loop over the keywords
CombineTags(t) ==
    /\ job[t].kind = "combine_tags"
    /\ xres[t] = NoDict
    /\ xres' = [xres EXCEPT ![t] =
                  [tags |-> combine_tags(job[t].existing_tags, job[t].keywords),
                   merges |-> 1]]
    /\ UNCHANGED <<job, pipeVars, retryVars, call, writerVars, gen>>

\* the same keywords are merged into the tags of the result (a second
\* extraction of the item whose metadata now holds the merged tags)
CombineTagsAgain(t) ==
    /\ job[t].kind = "combine_tags"
    /\ xres[t] # NoDict
    /\ xres[t].merges = 1
    /\ xres' = [xres EXCEPT ![t] =
                  [tags |-> combine_tags(xres[t].tags, job[t].keywords),
                   merges |-> 2]]
    /\ UNCHANGED <<job, pipeVars, retryVars, call, writerVars, gen>>

NextMerge ==
    \/ \E t \in Tasks : CombineTags(t)
    \/ \E t \in Tasks : CombineTagsAgain(t)

SpecMerge == InitMerge /\ [][NextMerge]_vars

\* the positions of N that hold a tag that is not in E, for the first time
FirstNew(E, N) ==
    {i \in 1..Len(N) : /\ \A j \in 1..Len(E) : E[j] # N[i]
                       /\ \A j \in 1..(i - 1) : N[j] # N[i]}

\* M is E followed by the tags of N at the positions FirstNew(E, N), in the
\* order of these positions
MergedAs(M, E, N) ==
    LET idx == FirstNew(E, N)
        nth(k) == CHOOSE i \in idx : Cardinality({j \in idx : j < i}) = k - 1
    IN /\ Len(M) = Len(E) + Cardinality(idx)
       /\ \A i \in 1..Len(E) : M[i] = E[i]
       /\ \A k \in 1..Cardinality(idx) : M[Len(E) + k] = N[nth(k)]

\* C17: the merged list is the existing list E in its order followed by the
\* tags of N that are not in E, each once, in order of first occurrence;
\* merging N again into the merged list gives the same list.
C17_TagMerge ==
    \A t \in Tasks :
        (job[t].kind = "combine_tags" /\ xres[t] # NoDict) =>
            MergedAs(xres[t].tags, job[t].existing_tags, job[t].keywords)

\* C17 witness: ["A", "B"] has been merged twice into ["A"] and the list is
\* ["A", "B"].
C17_Witness ==
    \E t \in Tasks :
        /\ job[t].kind = "combine_tags"
        /\ job[t].existing_tags = <<"A">>
        /\ job[t].keywords = <<"A", "B">>
        /\ xres[t] # NoDict
        /\ xres[t].merges = 2
        /\ xres[t].tags = <<"A", "B">>

\* C18: for a response that is not JSON and holds no emphasis marker ("not
\* json at all") extract_info returns software = [], tags = the tags of the
\* metadata (same elements, same order, same multiplicity) and a non-empty
\* error.
C18_FallbackKeepsTags ==
    \A t \in Tasks :
        ExtractedFrom(t, "text_plain") =>
            /\ xres[t].software = <<>>
            /\ xres[t].tags = job[t].existing_tags
            /\ "error" \in DOMAIN xres[t]
            /\ xres[t].error # ""

\* the `tags` list of the JSON object of a response
ResponseTags(r) ==
    LET content == ContentOf(r) IN
    GetList(IF content.fence THEN content.inner.fields ELSE content.whole.fields,
            "tags")

\* C19: for a response that is a JSON object with a software list S and a
\* tags list T, extract_info returns software = S and tags = the existing
\* tags followed by the tags of T not already present, and no error field.
C19_EndToEnd ==
    \A t \in Tasks : \A r \in {"json_tags", "fenced_tags"} :
        ExtractedFrom(t, r) =>
            /\ xres[t].software = <<"Figma">>
            /\ MergedAs(xres[t].tags, job[t].existing_tags, ResponseTags(r))
            /\ "error" \notin DOMAIN xres[t]

(***************************************************************************)
(* The --workflow option.                                                  *)
(***************************************************************************)
\* C20: run_workflow_async on an item that has no record yet executes the
\* four phases in the fixed order and returns the compiled output; on
\* return all four phases of the record of the item are complete.
C20_FullWorkflow ==
    (/\ call.op = "run_workflow_async"
     /\ call.initial = FreshState(call.key[1], call.key[2])) =>
        /\ call.out = Returned(EmptyOutput)
        /\ executed = [i \in 1..Len(Phases) |-> NodeOf(Phases[i])]
        /\ AllComplete(call.state)

(***************************************************************************)
(* Crashes and resumes of the pipeline.                                    *)
(***************************************************************************)
\* the process stops between two phases of a run: a phase node of the run
\* has returned and the next node has not started
CrashBetweenPhases ==
    /\ node \in PhaseNodes
    /\ executed # <<>>
    /\ mem # None
    /\ node' = "Idle"
    /\ UNCHANGED <<disk, now>>

\* the last write of the record of the run has succeeded: the state file
\* holds a record written at the time of the last save_state call
LastWriteSucceeded ==
    /\ Persisted(disk) # None
    /\ Persisted(disk).timestamp = mem.timestamp

\* C21: when the process stops between two phases and the write of the
\* phase node before the crash has succeeded, the state file holds the
\* whole in-memory record, and the node that InitializeNode.run chooses in
\* the next run is the node of the first phase that is not complete in the
\* record of the crashed run: no earlier phase and no later one.
C21_PersistBeforeProceeding ==
    [][(CrashBetweenPhases /\ LastWriteSucceeded) =>
          /\ Persisted(disk') = mem
          /\ ~AllComplete(mem) =>
                InitializeNode_next(initialize_state(disk', mem.channel_id,
                                                     mem.video_id))
                   = NodeOf(FirstIncomplete(mem.completion_status))]_vars

\* C21 witness: the process has stopped after SummarizeProcessesNode, whose
\* write succeeded, and before ExtractInfoNode started: the state file holds
\* the record written at the last tick, with the first two phases complete
\* and the third pending.
C21_Witness ==
    /\ node = "Idle"
    /\ mem = None
    /\ executed = <<"ExtractProcessesNode", "SummarizeProcessesNode">>
    /\ LET state == load_state(disk, "UC1", "vid1") IN
       /\ state # None
       /\ state.timestamp = now - 1
       /\ state.completion_status["process_extraction"] = "complete"
       /\ state.completion_status["process_summarization"] = "complete"
       /\ state.completion_status["info_extraction"] = "pending"
       /\ InitializeNode_next(state) = "ExtractInfoNode"

\* C22: when the process stops after a phase node has started and before it
\* returns, the persisted record of the item is the record as it was before
\* the phase started, and the next run resumes at the node it would have
\* chosen from that record.
C22_CrashMidPhaseSafe ==
    [][(InRun /\ node \in PhaseNodes /\ node' = "Idle") =>
          /\ Persisted(disk') = Persisted(disk)
          /\ InitializeNode_next(initialize_state(disk', mem.channel_id, mem.video_id))
                = InitializeNode_next(initialize_state(disk, mem.channel_id,
                                                       mem.video_id))]_vars

\* C23: the record InitializeNode.run inspects is the record of the context
\* that the chosen phase node mutates and saves (same key, same statuses),
\* and a save of a phase node never replaces a persisted complete status by
\* a pending one.
C23_SameRecord ==
    [][/\ (node = "InitializeNode" /\ node' \in PhaseNodes) =>
            LET state == initialize_state(disk, nodeKey[1], nodeKey[2]) IN
            /\ mem'.channel_id = state.channel_id
            /\ mem'.video_id = state.video_id
            /\ mem'.completion_status = state.completion_status
       /\ (node \in PhaseNodes /\ node' # "Idle" /\ node' # node) =>
            \A p \in PhaseSet :
                (/\ Persisted(disk) # None
                 /\ Persisted(disk') # None
                 /\ Persisted(disk).completion_status[p] = "complete")
                => Persisted(disk').completion_status[p] # "pending"]_vars

(***************************************************************************)
(* Runs of the graph that nothing interrupts.                              *)
(***************************************************************************)
\* a run is started while the clock of the model leaves room for its four
\* saves
StartRunInTime(channel_id, video_id, loaded) ==
    /\ now + Len(Phases) <= MaxClock
    /\ StartRun(channel_id, video_id, loaded)

NextLive ==
    \/ \E c \in ChannelIds, v \in VideoIds, loaded \in BOOLEAN :
          StartRunInTime(c, v, loaded)
    \/ InitializeNode_run
    \/ \E o \in WriteOutcomes : ExtractProcessesNode_run(o)
    \/ \E o \in WriteOutcomes : SummarizeProcessesNode_run(o)
    \/ \E o \in WriteOutcomes : ExtractInfoNode_run(o)
    \/ \E o \in WriteOutcomes : CompileOutputNode_run(o)
    \/ Finish

\* the runner of the graph awaits the run method of the node it holds and
\* then runs the node that method returned
RunFairness ==
    /\ WF_vars(InitializeNode_run)
    /\ WF_vars(\E o \in WriteOutcomes : ExtractProcessesNode_run(o))
    /\ WF_vars(\E o \in WriteOutcomes : SummarizeProcessesNode_run(o))
    /\ WF_vars(\E o \in WriteOutcomes : ExtractInfoNode_run(o))
    /\ WF_vars(\E o \in WriteOutcomes : CompileOutputNode_run(o))

SpecLive == Init /\ [][NextLive]_vars /\ RunFairness

NoFailedPhase(state) ==
    \A p \in PhaseSet : state.completion_status[p] # "failed"

NoRepeat(seq) ==
    \A i \in 1..Len(seq), j \in 1..Len(seq) : i # j => seq[i] # seq[j]

\* C24 as stated: a run that has reached End without a failed phase has
\* output_compilation complete and final_output_path set, and the state
\* file holds its record.
C24_EndPersisted ==
    (node = "End" /\ NoFailedPhase(mem)) =>
        /\ mem.completion_status["output_compilation"] = "complete"
        /\ mem.final_output_path = output_path(mem)
        /\ Persisted(disk) = mem

\* C24 amended: every run started at InitializeNode executes at most four
\* phase nodes, none twice, and reaches End; when it ends without a failed
\* phase, output_compilation is complete and final_output_path is set in
\* the record of the run, and the state file holds that record whenever the
\* write of CompileOutputNode succeeded.
C24_Termination ==
    /\ [](Len(executed) <= Len(Phases) /\ NoRepeat(executed))
    /\ (node = "InitializeNode") ~> (node = "End")
    /\ []((node = "End" /\ NoFailedPhase(mem)) =>
            /\ executed # <<>>
            /\ Last(executed) = "CompileOutputNode"
            /\ mem.completion_status["output_compilation"] = "complete"
            /\ mem.final_output_path = output_path(mem)
            /\ LastWriteSucceeded => Persisted(disk) = mem)

\* C24 witness: a run that started on a record with a failed first phase
\* has executed the four phase nodes and reached End, and the write of
\* CompileOutputNode has failed.
C24_Witness ==
    /\ node = "End"
    /\ Len(executed) = 4
    /\ start.loaded.completion_status["process_extraction"] = "failed"
    /\ NoFailedPhase(mem)
    /\ mem.completion_status["output_compilation"] = "complete"
    /\ ~LastWriteSucceeded

(***************************************************************************)
(* Two processes that run the graph on the same item at the same time,     *)
(* each with a context built on initialize_state.                          *)
(***************************************************************************)
\* the node a phase node returns
NextNode(n) ==
    CASE n = "ExtractProcessesNode" -> "SummarizeProcessesNode"
      [] n = "SummarizeProcessesNode" -> "ExtractInfoNode"
      [] n = "ExtractInfoNode" -> "CompileOutputNode"
      [] n = "CompileOutputNode" -> "End"

\* the records a run leaves when it stops after its k-th phase
InterruptedRecords ==
    {r \in StoredRecords :
        /\ r.interim_results = FreshInterim
        /\ \E k \in 0..(Len(Phases) - 1) :
              \A i \in 1..Len(Phases) :
                  r.completion_status[Phases[i]] =
                      IF i <= k THEN "complete" ELSE "pending"}

InitWriters ==
    /\ disk \in [Paths -> {NoFile} \cup InterruptedRecords]
    /\ now = 2
    /\ node = "Idle"
    /\ nodeKey = <<>>
    /\ mem = None
    /\ result = NoneStr
    /\ executed = <<>>
    /\ start = None
    /\ params = [t \in Tasks |-> [max_retries |-> 0, delay |-> 1,
                                  backoff_factor |-> 1, phase_name |-> "unknown"]]
    /\ rpc = [t \in Tasks |-> "none"]
    /\ attempt = [t \in Tasks |-> 0]
    /\ ret = [t \in Tasks |-> NoPair]
    /\ loop = 0
    /\ calls = [t \in Tasks |-> 0]
    /\ waits = [t \in Tasks |-> <<>>]
    /\ outcomes = [t \in Tasks |-> <<>>]
    /\ job = [t \in Tasks |-> NoJob]
    /\ xres = [t \in Tasks |-> NoDict]
    /\ call = NoCall
    /\ ws = [w \in Writers |-> [node |-> "Ready", mem |-> None]]
    /\ lastSave = NoSave
    /\ gen = NoStream

\* writer w builds its context: state = initialize_state(channel_id, video_id)
Writer_load(w, channel_id, video_id) ==
    /\ ws[w].node = "Ready"
    /\ ws' = [ws EXCEPT ![w] = [node |-> "InitializeNode",
                                mem |-> initialize_state(disk, channel_id, video_id)]]
    /\ UNCHANGED <<pipeVars, retryVars, jobVars, call, lastSave, gen>>

\* InitializeNode.run of writer w
Writer_initialize(w) ==
    /\ ws[w].node = "InitializeNode"
    /\ LET state == initialize_state(disk, ws[w].mem.channel_id, ws[w].mem.video_id)
       IN ws' = [ws EXCEPT ![w].node = InitializeNode_next(state)]
    /\ UNCHANGED <<pipeVars, retryVars, jobVars, call, lastSave, gen>>

\* the run method of the phase node writer w is at: mutate, save, return
\* the next node
Writer_node(w, outcome) ==
    /\ ws[w].node \in {NodeOf(p) : p \in PhaseSet}
    /\ now < MaxClock
    /\ LET sv == save_state(disk, NodeRecord(ws[w].node, ws[w].mem), now, outcome)
       IN /\ disk' = sv.files
          /\ ws' = [ws EXCEPT ![w] = [node |-> NextNode(ws[w].node),
                                      mem |-> sv.state]]
    /\ now' = now + 1
    /\ lastSave' = [writer |-> w, outcome |-> outcome,
                    written |-> IF outcome = "ok"
                                THEN [lastSave.written EXCEPT ![w] = ws'[w].mem]
                                ELSE lastSave.written]
    /\ UNCHANGED <<node, nodeKey, mem, result, executed, start,
                   retryVars, jobVars, call, gen>>

\* add_error on the record of writer w
Writer_add_error(w, phase, outcome) ==
    /\ ws[w].node \in {NodeOf(p) : p \in PhaseSet}
    /\ now < MaxClock
    /\ Len(ErrorsOf(ws[w].mem)) < MaxErrors
    /\ LET sv == add_error(disk, ws[w].mem, Error(phase, "boom", 2), now, outcome)
       IN /\ disk' = sv.files
          /\ ws' = [ws EXCEPT ![w].mem = sv.state]
    /\ now' = now + 1
    /\ lastSave' = [writer |-> w, outcome |-> outcome,
                    written |-> IF outcome = "ok"
                                THEN [lastSave.written EXCEPT ![w] = ws'[w].mem]
                                ELSE lastSave.written]
    /\ UNCHANGED <<node, nodeKey, mem, result, executed, start,
                   retryVars, jobVars, call, gen>>

NextWriters ==
    \/ \E w \in Writers, c \in ChannelIds, v \in VideoIds : Writer_load(w, c, v)
    \/ \E w \in Writers : Writer_initialize(w)
    \/ \E w \in Writers, o \in WriteOutcomes : Writer_node(w, o)
    \/ \E w \in Writers, p \in ErrorPhases, o \in WriteOutcomes :
          Writer_add_error(w, p, o)

SpecWriters == InitWriters /\ [][NextWriters]_vars

\* both processes have reached End
BothDone == \A w \in Writers : ws[w].node = "End"

\* C25: when two runs on the same key have both finished and the last
\* save_state call has written the file, the persisted record is the whole
\* in-memory record of the run that made that call: nothing of the record
\* the other run saved is merged into it.
C25_LastWriteWins ==
    (BothDone /\ lastSave.outcome = "ok") =>
        load_state(disk, "UC1", "vid1") = ws[lastSave.writer].mem

\* C25 witness: both runs have finished; the first run had saved a record
\* with an error and a failed phase; the second run saved last, and the
\* persisted record is its record, without the error.
C25_Witness ==
    /\ BothDone
    /\ lastSave.outcome = "ok"
    /\ lastSave.writer = 2
    /\ lastSave.written[1] # None
    /\ ErrorsOf(lastSave.written[1]) # <<>>
    /\ \E p \in PhaseSet : lastSave.written[1].completion_status[p] = "failed"
    /\ load_state(disk, "UC1", "vid1") = ws[2].mem
    /\ ErrorsOf(ws[2].mem) = <<>>
    /\ AllComplete(ws[2].mem)

(***************************************************************************)
(* The order of the completed phases.                                      *)
(***************************************************************************)
\* the phases of the record that are complete form a prefix of Phases
CompletePrefix(state) ==
    \A i, j \in 1..Len(Phases) :
        (i < j /\ state.completion_status[Phases[j]] = "complete") =>
            state.completion_status[Phases[i]] = "complete"

\* C26: the complete phases of a record form a prefix of the fixed order
\* after each operation of the program on a record where they did: in the
\* record run_workflow_async leaves in memory and in the state file, and in
\* the record add_error returns, a complete phase has every phase before it
\* complete.
C26_CompletePrefix ==
    /\ (call.op = "run_workflow_async" /\ CompletePrefix(call.initial)) =>
          /\ CompletePrefix(call.state)
          /\ call.outcome = "ok" =>
                CompletePrefix(load_state(disk, call.key[1], call.key[2]))
    /\ (call.op = "add_error" /\ CompletePrefix(call.arg)) =>
          CompletePrefix(call.out)

(***************************************************************************)
(* retry_sync against retry_async.                                         *)
(***************************************************************************)
\* C27: retry_sync called with the max_retries, delay, backoff_factor and
\* phase_name of a finished retry_async call, on an operation whose
\* invocations end as those of that call did, makes the same number of
\* invocations, sleeps the same sequence of waits and returns the same
\* (result, error) pair.
C27_SyncAsyncEquivalent ==
    call.op = "retry_sync" =>
        /\ call.out.calls = calls[call.task]
        /\ call.out.waits = waits[call.task]
        /\ call.out.ret = ret[call.task]

\* C27 witness: both functions have run on two failures followed by a
\* success, with two waits and the value returned
C27_Witness ==
    /\ call.op = "retry_sync"
    /\ Len(outcomes[call.task]) = 3
    /\ Last(outcomes[call.task]).kind = "return"
    /\ call.out.calls = 3
    /\ Len(call.out.waits) = 2
    /\ call.out.ret = ReturnPair(Last(outcomes[call.task]).value, None)

(***************************************************************************)
(* utils/ollama_client.py: OllamaClient.generate_stream                    *)
(***************************************************************************)
\* the chunks a stream of ollama.chat produces and the str() of the
\* Exceptions ollama.chat or its stream raises
Chunks == {"a", "b"}
StreamErrors == {"e1", "e2"}

\* the sequences of seqs, one after the other
RECURSIVE Concat(_)
Concat(seqs) == IF seqs = <<>> THEN <<>> ELSE Head(seqs) \o Concat(Tail(seqs))

\* the generator generate_stream(prompt) returns, before its first next():
\* no line of the body has run; token_usage is what the client holds
NewStream(max_retries, token_usage) ==
    [pc |-> "created",
     max_retries |-> max_retries,
     attempt |-> 0,
     last_chunk |-> NoneStr,
     token_usage |-> token_usage,
     yielded |-> <<>>,      \* history: the chunks of the stream of each attempt
     received |-> <<>>,     \* history: the chunks next() returned
     failures |-> <<>>,     \* history: the Exception of each failed attempt
     sleeps |-> 0,          \* history: the time.sleep(retry_delay) calls
     exc |-> NoneStr]       \* the Exception raised to the consumer

\* a consumer holds a new generator of a client with max_retries 0..
\* MaxStreamRetries whose token_usage is zero or left by an earlier call
InitStream ==
    /\ gen \in {NewStream(m, u) : m \in 0..MaxStreamRetries, u \in {"zero", "stale"}}
    /\ disk = [p \in Paths |-> NoFile]
    /\ now = 2
    /\ node = "Idle"
    /\ nodeKey = <<>>
    /\ mem = None
    /\ result = NoneStr
    /\ executed = <<>>
    /\ start = None
    /\ params = [t \in Tasks |-> [max_retries |-> 0, delay |-> 1,
                                  backoff_factor |-> 1, phase_name |-> "unknown"]]
    /\ rpc = [t \in Tasks |-> "none"]
    /\ attempt = [t \in Tasks |-> 0]
    /\ ret = [t \in Tasks |-> NoPair]
    /\ loop = 0
    /\ calls = [t \in Tasks |-> 0]
    /\ waits = [t \in Tasks |-> <<>>]
    /\ outcomes = [t \in Tasks |-> <<>>]
    /\ job = [t \in Tasks |-> NoJob]
    /\ xres = [t \in Tasks |-> NoDict]
    /\ call = NoCall
    /\ NoWriters

StreamUnchanged == UNCHANGED <<pipeVars, retryVars, jobVars, call, writerVars>>

\* The consumer calls next(): the first call runs the body from its top,
\* _reset_token_usage() and the first iteration of the for loop up to
\* ollama.chat(..., stream=True); a later call resumes after the yield.
generate_stream_next ==
    /\ gen.pc \in {"created", "yielded"}
    /\ gen' = IF gen.pc = "created"
              THEN [gen EXCEPT !.pc = "streaming",
                               !.token_usage = "zero",
                               !.attempt = 0,
                               !.last_chunk = NoneStr,
                               !.yielded = <<<<>>>>]
              ELSE [gen EXCEPT !.pc = "streaming"]
    /\ StreamUnchanged

\* The stream of the attempt produces a chunk: last_chunk = chunk; yield
\* chunk, which next() returns to the consumer.
generate_stream_yield(chunk) ==
    /\ gen.pc = "streaming"
    /\ Len(Last(gen.yielded)) < MaxChunks
    /\ gen' = [gen EXCEPT !.pc = "yielded",
                          !.last_chunk = chunk,
                          !.yielded[Len(gen.yielded)] = Append(@, chunk),
                          !.received = Append(@, chunk)]
    /\ StreamUnchanged

\* The stream of the attempt ends: _update_token_usage(last_chunk) when a
\* chunk was produced, and return, which ends the iteration of the consumer.
generate_stream_return ==
    /\ gen.pc = "streaming"
    /\ gen' = [gen EXCEPT !.pc = "done",
                          !.token_usage = IF gen.last_chunk # NoneStr
                                          THEN gen.last_chunk ELSE @]
    /\ StreamUnchanged

\* ollama.chat or its stream raises an Exception e: with a retry left the
\* except clause calls time.sleep(retry_delay); otherwise it re-raises e,
\* which next() raises to the consumer.
generate_stream_except(e) ==
    /\ gen.pc = "streaming"
    /\ gen' = IF gen.attempt < gen.max_retries
              THEN [gen EXCEPT !.pc = "sleeping",
                               !.failures = Append(@, e),
                               !.sleeps = @ + 1]
              ELSE [gen EXCEPT !.pc = "raised",
                               !.failures = Append(@, e),
                               !.exc = e]
    /\ StreamUnchanged

\* the restart of the stream taking back the chunks already handed over
generate_stream_retry_rewind ==
    /\ gen.pc = "sleeping"
    /\ gen' = [gen EXCEPT !.pc = "streaming",
                          !.attempt = @ + 1,
                          !.last_chunk = NoneStr,
                          !.received = <<>>,
                          !.yielded = Append(@, <<>>)]
    /\ StreamUnchanged

\* time.sleep returns: the next iteration of the for loop sets last_chunk
\* to None and calls ollama.chat again, which starts a new stream; when
\* range(max_retries + 1) is used up the body ends.
generate_stream_retry ==
    /\ gen.pc = "sleeping"
    /\ gen' = IF gen.attempt + 1 < gen.max_retries + 1
              THEN [gen EXCEPT !.pc = "streaming",
                               !.attempt = @ + 1,
                               !.last_chunk = NoneStr,
                               !.yielded = Append(@, <<>>)]
              ELSE [gen EXCEPT !.pc = "done"]
    /\ StreamUnchanged

NextStream ==
    \/ generate_stream_next
    \/ \E chunk \in Chunks : generate_stream_yield(chunk)
    \/ generate_stream_return
    \/ \E e \in StreamErrors : generate_stream_except(e)
    \/ generate_stream_retry

SpecStream == InitStream /\ [][NextStream]_vars

\* C28: generate_stream does not retract or skip chunks on retry: what the
\* consumer has received is the concatenation, in attempt order, of the
\* chunks the stream of every attempt has produced; at most max_retries + 1
\* attempts are made; an Exception reaches the consumer only when attempt
\* max_retries + 1 has failed, and it is the Exception of that attempt.
C28_StreamConcatenation ==
    /\ gen.received = Concat(gen.yielded)
    /\ Len(gen.yielded) <= gen.max_retries + 1
    /\ gen.sleeps <= gen.max_retries
    /\ gen.pc = "raised" =>
          /\ Len(gen.yielded) = gen.max_retries + 1
          /\ Len(gen.failures) = gen.max_retries + 1
          /\ gen.exc = Last(gen.failures)
    /\ gen.pc # "raised" =>
          /\ gen.exc = NoneStr
          /\ Len(gen.failures) <= gen.max_retries

\* C28 witness: the first attempt failed after the chunk a, the restarted
\* stream produced a and b and ended; the consumer has received a, a, b.
C28_Witness ==
    /\ gen.pc = "done"
    /\ gen.yielded = <<<<"a">>, <<"a", "b">>>>
    /\ gen.failures = <<"e1">>
    /\ gen.received = <<"a", "a", "b">>
    /\ gen.token_usage = "b"

====
